---- MODULE Spec2Model ----
(***************************************************************************)
(* json-monkey-rs: the JIR parser (src/jir.rs), the tree-walking evaluator *)
(* (src/interpreter.rs) and the session that chains them (src/repl.rs).    *)
(*                                                                         *)
(* Rust indexes are 0-based and TLA+ sequences 1-based: vs[i] in the       *)
(* source is vs[i + 1] here.  Paths (sequences of Rust operand indexes)    *)
(* name a node of the input by its position.                               *)
(***************************************************************************)
EXTENDS Integers, Sequences, FiniteSets, TLC

VARIABLES
    env,      \* Interpreter.global_env.bindings, a function on the names bound
    alive,    \* FALSE once a panic has unwound through Repl::eval_str
    src,      \* the text handed to the last parse_json call
    parsed,   \* what that parse_json call produced, with the nodes it visited
    out,      \* what the last Repl::eval_str call returned
    log,      \* the enter/exit events of Interpreter::eval during that call
    env0,     \* the bindings as they were when that call started
    bound     \* history: per name, the value of the last Bind that returned Ok

vars == <<env, alive, src, parsed, out, log, env0, bound>>

-----------------------------------------------------------------------------
(* Bounds of the model.                                                    *)

\* number literals are 0 .. MaxNum
MaxNum == 1

\* the parser is exercised on arrays of a tag and 0 .. MaxOperands operands
MaxOperands == 4

-----------------------------------------------------------------------------
(* Value (the four variants interpreter.rs matches on).                    *)

VNull == [tag |-> "Null", n |-> 0, s |-> "", b |-> FALSE]
VNumber(x) == [tag |-> "Number", n |-> x, s |-> "", b |-> FALSE]
VString(x) == [tag |-> "String", n |-> 0, s |-> x, b |-> FALSE]
VBoolean(x) == [tag |-> "Boolean", n |-> 0, s |-> "", b |-> x]

\* Value's derived PartialEq: same variant and equal payload.
ValueEq(l, r) ==
    /\ l.tag = r.tag
    /\ CASE l.tag = "Null" -> TRUE
         [] l.tag = "Number" -> l.n = r.n
         [] l.tag = "String" -> l.s = r.s
         [] l.tag = "Boolean" -> l.b = r.b

-----------------------------------------------------------------------------
(* serde_json::Value, as parse_expression sees it.  f is whether           *)
(* Number::as_f64 returns Some.                                            *)

JNull == [k |-> "Null", n |-> 0, s |-> "", b |-> FALSE, f |-> TRUE, a |-> << >>]
JNumber(x) == [k |-> "Number", n |-> x, s |-> "", b |-> FALSE, f |-> TRUE, a |-> << >>]
JBigNumber == [k |-> "Number", n |-> 0, s |-> "", b |-> FALSE, f |-> FALSE, a |-> << >>]
JString(x) == [k |-> "String", n |-> 0, s |-> x, b |-> FALSE, f |-> TRUE, a |-> << >>]
JBool(x) == [k |-> "Bool", n |-> 0, s |-> "", b |-> x, f |-> TRUE, a |-> << >>]
JArray(x) == [k |-> "Array", n |-> 0, s |-> "", b |-> FALSE, f |-> TRUE, a |-> x]
JObject == [k |-> "Object", n |-> 0, s |-> "", b |-> FALSE, f |-> TRUE, a |-> << >>]

\* A program text: serde_json::from_str either decodes it or rejects it.
Text(j) == [valid |-> TRUE, json |-> j]
Malformed == [valid |-> FALSE, json |-> JNull]

-----------------------------------------------------------------------------
(* AstNode.  kids holds the boxed children, If's optional else last.       *)

Ident(name) == [node |-> "Ident", val |-> VNull, id |-> name, kids |-> << >>]
Literal(v) == [node |-> "Literal", val |-> v, id |-> "", kids |-> << >>]
Bind(name, e) == [node |-> "Bind", val |-> VNull, id |-> name, kids |-> <<e>>]
Node(kind, ks) == [node |-> kind, val |-> VNull, id |-> "", kids |-> ks]
NoAst == Node("None", << >>)

-----------------------------------------------------------------------------
(* Result<AstNode, ParseError>, or a panic; log lists the paths of the     *)
(* JSON nodes handed to parse_expression or parse_ident, in call order.    *)

POk(ast, lg) ==
    [st |-> "Ok", ast |-> ast, err |-> "", actual |-> 0, expected |-> 0, log |-> lg]
PErr(e, lg) ==
    [st |-> "Err", ast |-> NoAst, err |-> e, actual |-> 0, expected |-> 0, log |-> lg]
PArgs(e, act, exp) ==
    [st |-> "Err", ast |-> NoAst, err |-> e, actual |-> act, expected |-> exp, log |-> << >>]
PPanic(lg) ==
    [st |-> "Panic", ast |-> NoAst, err |-> "", actual |-> 0, expected |-> 0, log |-> lg]

\* r happened after the calls logged in lg
After(lg, r) == [r EXCEPT !.log = lg \o r.log]

assert_form_range(vs, min, max) ==
    LET actual == Len(vs)
    IN  IF actual < min THEN PArgs("NotEnoughArgs", actual, min)
        ELSE IF actual > max THEN PArgs("TooManyArgs", actual, max)
        ELSE POk(NoAst, << >>)

parse_ident(v, p) ==
    IF v.k = "String" THEN POk(Ident(v.s), <<p>>) ELSE PErr("IdentExpected", <<p>>)

\* the match guard JsonValue::String(s) if s == t
is_tag(v, t) == v.k = "String" /\ v.s = t

\* the match's last arm
UnsupportedFormOk == POk(Literal(VNull), << >>)
unsupported_form == PErr("UnsupportedForm", << >>)

\* the arm _ => unimplemented!() of parse_expression, which an object reaches
parse_object(p) == PPanic(<<p>>)

RECURSIVE parse_expression(_, _)
RECURSIVE parse_compound(_, _)

\* parse_expression(&vs[1])? then parse_expression(&vs[2])?, boxed into kind
parse_two(kind, vs, p) ==
    LET l == parse_expression(vs[2], p \o <<1>>)
    IN  IF l.st # "Ok" THEN l
        ELSE LET r == parse_expression(vs[3], p \o <<2>>)
             IN  IF r.st # "Ok" THEN After(l.log, r)
                 ELSE POk(Node(kind, <<l.ast, r.ast>>), l.log \o r.log)

\* assert_form_range(vs, Some(3), Some(3))? and then the two operands
checked_two(kind, vs, p) ==
    LET c == assert_form_range(vs, 3, 3)
    IN  IF c.st # "Ok" THEN c ELSE parse_two(kind, vs, p)

parse_sub(vs, p) ==
    IF Len(vs) < 3 THEN PPanic(<< >>)          \* vs[1..=2] is out of range
    ELSE parse_two("Sub", vs, p)               \* collect stops at the first Err

parse_bind(vs, p) ==
    IF Len(vs) < 2 THEN PPanic(<< >>)          \* vs[1] is out of bounds
    ELSE LET i == parse_ident(vs[2], p \o <<1>>)
         IN  IF i.st # "Ok" THEN i
             ELSE IF Len(vs) < 3 THEN PPanic(i.log)   \* vs[2] is out of bounds
             ELSE LET e == parse_expression(vs[3], p \o <<2>>)
                  IN  IF e.st # "Ok" THEN After(i.log, e)
                      ELSE POk(Bind(i.ast.id, e.ast), i.log \o e.log)

parse_ref(vs, p) ==
    IF Len(vs) < 2 THEN PPanic(<< >>)          \* vs[1] is out of bounds
    ELSE parse_ident(vs[2], p \o <<1>>)

parse_if(vs, p) ==
    LET c == assert_form_range(vs, 3, 4)
    IN  IF c.st # "Ok" THEN c
        ELSE LET t == parse_two("If", vs, p)
             IN  IF t.st # "Ok" \/ Len(vs) # 4 THEN t
                 ELSE LET fb == parse_expression(vs[4], p \o <<3>>)
                      IN  IF fb.st # "Ok" THEN After(t.log, fb)
                          ELSE POk(Node("If", t.ast.kids \o <<fb.ast>>), t.log \o fb.log)

parse_not(vs, p) ==
    LET c == assert_form_range(vs, 2, 2)
    IN  IF c.st # "Ok" THEN c
        ELSE LET x == parse_expression(vs[2], p \o <<1>>)
             IN  IF x.st # "Ok" THEN x ELSE POk(Node("Not", <<x.ast>>), x.log)

parse_compound(vs, p) ==
    IF Len(vs) = 0 THEN PPanic(<< >>)          \* vs[0] is out of bounds
    ELSE LET h == vs[1]
         IN  CASE is_tag(h, "$add") -> checked_two("Add", vs, p)
               [] is_tag(h, "$sub") -> parse_sub(vs, p)
               [] is_tag(h, "$bind") -> parse_bind(vs, p)
               [] is_tag(h, "$ref") -> parse_ref(vs, p)
               [] is_tag(h, "$if") -> parse_if(vs, p)
               [] is_tag(h, "$while") -> checked_two("While", vs, p)
               [] is_tag(h, "$and") -> checked_two("And", vs, p)
               [] is_tag(h, "$or") -> checked_two("Or", vs, p)
               [] is_tag(h, "$not") -> parse_not(vs, p)
               [] is_tag(h, "$eq") -> checked_two("Eq", vs, p)
               [] is_tag(h, "$notEq") -> checked_two("NotEq", vs, p)
               [] OTHER -> unsupported_form

parse_expression(json, p) ==
    CASE json.k = "Array" -> After(<<p>>, parse_compound(json.a, p))
      [] json.k = "Number" ->
            IF json.f THEN POk(Literal(VNumber(json.n)), <<p>>)
            ELSE PErr("UnsupportedNumberLiteral", <<p>>)
      [] json.k = "Null" -> POk(Literal(VNull), <<p>>)
      [] json.k = "String" -> POk(Literal(VString(json.s)), <<p>>)
      [] json.k = "Bool" -> POk(Literal(VBoolean(json.b)), <<p>>)
      [] OTHER -> parse_object(p)

parse_json(text) ==
    IF ~text.valid THEN PErr("InvalidJson", << >>)
    ELSE parse_expression(text.json, << >>)

-----------------------------------------------------------------------------
(* Environment: HashMap<Ident, Value>, a function on the names bound.      *)

EmptyEnv == [name \in {} |-> VNull]

InsertIfAbsent(e, name, v) ==
    IF name \in DOMAIN e THEN e
    ELSE [x \in DOMAIN e \cup {name} |-> IF x = name THEN v ELSE e[x]]
insert(e, name, v) ==
    [x \in DOMAIN e \cup {name} |-> IF x = name THEN v ELSE e[x]]

-----------------------------------------------------------------------------
(* Result<Value, EvalError> of one eval call, with the bindings it leaves  *)
(* and the events of the calls made so far.                                *)

EOk(v, e, lg) == [ok |-> TRUE, v |-> v, err |-> "", id |-> "", env |-> e, log |-> lg]
EErr(err, name, e, lg) ==
    [ok |-> FALSE, v |-> VNull, err |-> err, id |-> name, env |-> e, log |-> lg]

\* the call of eval on the node at path p (a sequence of child positions) with
\* bindings e, and its return
Enter(p, e) ==
    [ev |-> "enter", p |-> p, ok |-> TRUE, v |-> VNull, err |-> "", id |-> "", env |-> e]
Exit(p, r) ==
    [ev |-> "exit", p |-> p, ok |-> r.ok, v |-> r.v, err |-> r.err, id |-> r.id,
     env |-> r.env]

to_number(v) ==
    IF v.tag = "Number" THEN [ok |-> TRUE, n |-> v.n] ELSE [ok |-> FALSE, n |-> 0]

to_boolean(v) ==
    CASE v.tag = "Boolean" -> v.b
      [] v.tag = "Number" -> v.n # 0
      [] v.tag = "String" -> v.s # ""
      [] v.tag = "Null" -> FALSE

\* the match (lv, rv) of the Add arm
AddCoercing(lv, rv, e, lg) ==
    CASE lv.tag = "Number" /\ rv.tag = "Number" -> EOk(VNumber(lv.n + rv.n), e, lg)
      [] lv.tag = "String" /\ rv.tag = "String" -> EOk(VString(lv.s \o rv.s), e, lg)
      [] lv.tag = "Null" /\ rv.tag = "Null" -> EOk(VNull, e, lg)
      [] OTHER -> EErr("UnexpectedTypeForOperation", "", e, lg)
add_values(lv, rv, e, lg) ==
    CASE lv.tag = "Number" /\ rv.tag = "Number" -> EOk(VNumber(lv.n + rv.n), e, lg)
      [] lv.tag = "String" /\ rv.tag = "String" -> EOk(VString(lv.s \o rv.s), e, lg)
      [] OTHER -> EErr("UnexpectedTypeForOperation", "", e, lg)

\* Ok(Value::Number(lv.to_number()? - rv.to_number()?))
sub_values(lv, rv, e, lg) ==
    IF ~to_number(lv).ok \/ ~to_number(rv).ok
    THEN EErr("UnsupportedConversion", "", e, lg)
    ELSE EOk(VNumber(to_number(lv).n - to_number(rv).n), e, lg)

\* Ok(Value::Boolean(lv == rv)) and Ok(Value::Boolean(lv != rv))
EqByTag(lv, rv, e, lg) == EOk(VBoolean(lv.tag = rv.tag), e, lg)
eq_values(lv, rv, e, lg) == EOk(VBoolean(ValueEq(lv, rv)), e, lg)
ne_values(lv, rv, e, lg) == EOk(VBoolean(~ValueEq(lv, rv)), e, lg)

\* the Ident arm: bindings.get(ident).cloned().ok_or(UndefinedIdent(ident))
lookup(name, e) ==
    IF name \in DOMAIN e THEN EOk(e[name], e, << >>)
    ELSE EErr("UndefinedIdent", name, e, << >>)

RECURSIVE eval(_, _, _)

\* let lv = self.eval(lhs)?; let rv = self.eval(rhs)?;
\* the results of the operands evaluated, the last carrying bindings and events
EvalBoth(ast, e, p) ==
    LET l == eval(ast.kids[1], e, p \o <<1>>)
        r == eval(ast.kids[2], l.env, p \o <<2>>)
    IN  IF ~l.ok THEN <<[l EXCEPT !.env = r.env, !.log = l.log \o r.log]>>
        ELSE <<l, [r EXCEPT !.log = l.log \o r.log]>>
EvalShortCircuit(ast, e, p) ==
    LET l == eval(ast.kids[1], e, p \o <<1>>)
    IN  IF ~l.ok THEN <<l>>
        ELSE IF \/ ast.node = "And" /\ ~to_boolean(l.v)
                \/ ast.node = "Or" /\ to_boolean(l.v)
             THEN <<l, l>>
             ELSE LET r == eval(ast.kids[2], l.env, p \o <<2>>)
                  IN  <<l, [r EXCEPT !.log = l.log \o r.log]>>
eval_two(ast, e, p) ==
    LET l == eval(ast.kids[1], e, p \o <<1>>)
    IN  IF ~l.ok THEN <<l>>
        ELSE LET r == eval(ast.kids[2], l.env, p \o <<2>>)
             IN  <<l, [r EXCEPT !.log = l.log \o r.log]>>

\* the Bind arm
BindEagerly(ast, e, p) ==
    LET r == eval(ast.kids[1], e, p \o <<1>>)
    IN  IF ~r.ok THEN [r EXCEPT !.env = insert(r.env, ast.id, VNull)]
        ELSE EOk(VNull, insert(r.env, ast.id, r.v), r.log)
eval_bind(ast, e, p) ==
    LET r == eval(ast.kids[1], e, p \o <<1>>)
    IN  IF ~r.ok THEN r
        ELSE EOk(VNull, insert(r.env, ast.id, r.v), r.log)

\* the If arm
IfBothBranches(ast, e, p) ==
    LET c == eval(ast.kids[1], e, p \o <<1>>)
    IN  IF ~c.ok THEN c
        ELSE LET t == eval(ast.kids[2], c.env, p \o <<2>>)
                 tl == [t EXCEPT !.log = c.log \o t.log]
             IN  IF Len(ast.kids) < 3 THEN
                     IF to_boolean(c.v) THEN tl ELSE EOk(VNull, tl.env, tl.log)
                 ELSE LET f == eval(ast.kids[3], tl.env, p \o <<3>>)
                      IN  IF to_boolean(c.v)
                          THEN [tl EXCEPT !.env = f.env, !.log = tl.log \o f.log]
                          ELSE [f EXCEPT !.log = tl.log \o f.log]
eval_if(ast, e, p) ==
    LET c == eval(ast.kids[1], e, p \o <<1>>)
    IN  IF ~c.ok THEN c
        ELSE IF to_boolean(c.v)
             THEN LET t == eval(ast.kids[2], c.env, p \o <<2>>)
                  IN  [t EXCEPT !.log = c.log \o t.log]
             ELSE IF Len(ast.kids) = 3
                  THEN LET f == eval(ast.kids[3], c.env, p \o <<3>>)
                       IN  [f EXCEPT !.log = c.log \o f.log]
                  ELSE EOk(VNull, c.env, c.log)

\* one of the two ? of eval_two returned early
Failed(rs) == ~rs[Len(rs)].ok

\* the match of Interpreter::eval; AstNode::While has no arm
eval_node(ast, e, p) ==
    CASE ast.node = "Literal" -> EOk(ast.val, e, << >>)
      [] ast.node = "Ident" -> lookup(ast.id, e)
      [] ast.node = "Bind" -> eval_bind(ast, e, p)
      [] ast.node = "If" -> eval_if(ast, e, p)
      [] ast.node = "Not" ->
            LET x == eval(ast.kids[1], e, p \o <<1>>)
            IN  IF ~x.ok THEN x ELSE EOk(VBoolean(~to_boolean(x.v)), x.env, x.log)
      [] ast.node \in {"Add", "Sub", "And", "Or", "Eq", "NotEq"} ->
            LET rs == eval_two(ast, e, p)
                z == rs[Len(rs)]
            IN  IF Failed(rs) THEN z
                ELSE LET lv == rs[1].v
                         rv == rs[2].v
                     IN  CASE ast.node = "Add" -> add_values(lv, rv, z.env, z.log)
                           [] ast.node = "Sub" -> sub_values(lv, rv, z.env, z.log)
                           [] ast.node = "And" ->
                                EOk(VBoolean(to_boolean(lv) /\ to_boolean(rv)), z.env, z.log)
                           [] ast.node = "Or" ->
                                EOk(VBoolean(to_boolean(lv) \/ to_boolean(rv)), z.env, z.log)
                           [] ast.node = "Eq" -> eq_values(lv, rv, z.env, z.log)
                           [] ast.node = "NotEq" -> ne_values(lv, rv, z.env, z.log)

eval(ast, e, p) ==
    LET r == eval_node(ast, e, p)
    IN  [r EXCEPT !.log = <<Enter(p, e)>> \o r.log \o <<Exit(p, r)>>]

-----------------------------------------------------------------------------
(* Repl: the session.                                                      *)

ROut(kind, v, err, name) == [kind |-> kind, v |-> v, err |-> err, id |-> name]
NoOut == ROut("None", VNull, "", "")
NoParse == POk(NoAst, << >>)

\* let node = JirParser::parse_json(s)?; Ok(self.interpreter.eval(&node)?)
EvalStrResetting(text, e) ==
    LET pr == parse_json(text)
    IN  CASE pr.st = "Panic" ->
              [parsed |-> pr, out |-> ROut("Panic", VNull, "", ""), env |-> e,
               log |-> << >>, alive |-> FALSE]
          [] pr.st = "Err" ->
              [parsed |-> pr, out |-> ROut("ParseError", VNull, pr.err, ""), env |-> EmptyEnv,
               log |-> << >>, alive |-> TRUE]
          [] pr.st = "Ok" ->
              LET r == eval(pr.ast, e, << >>)
              IN  [parsed |-> pr,
                   out |-> IF r.ok THEN ROut("Value", r.v, "", "")
                           ELSE ROut("EvalError", VNull, r.err, r.id),
                   env |-> r.env, log |-> r.log, alive |-> TRUE]
EvalStrRollingBack(text, e) ==
    LET pr == parse_json(text)
    IN  CASE pr.st = "Panic" ->
              [parsed |-> pr, out |-> ROut("Panic", VNull, "", ""), env |-> e,
               log |-> << >>, alive |-> FALSE]
          [] pr.st = "Err" ->
              [parsed |-> pr, out |-> ROut("ParseError", VNull, pr.err, ""), env |-> e,
               log |-> << >>, alive |-> TRUE]
          [] pr.st = "Ok" ->
              LET r == eval(pr.ast, e, << >>)
              IN  [parsed |-> pr,
                   out |-> IF r.ok THEN ROut("Value", r.v, "", "")
                           ELSE ROut("EvalError", VNull, r.err, r.id),
                   env |-> IF r.ok THEN r.env ELSE e, log |-> r.log, alive |-> TRUE]
eval_str(text, e) ==
    LET pr == parse_json(text)
    IN  CASE pr.st = "Panic" ->
              [parsed |-> pr, out |-> ROut("Panic", VNull, "", ""), env |-> e,
               log |-> << >>, alive |-> FALSE]
          [] pr.st = "Err" ->
              [parsed |-> pr, out |-> ROut("ParseError", VNull, pr.err, ""), env |-> e,
               log |-> << >>, alive |-> TRUE]
          [] pr.st = "Ok" ->
              LET r == eval(pr.ast, e, << >>)
              IN  [parsed |-> pr,
                   out |-> IF r.ok THEN ROut("Value", r.v, "", "")
                           ELSE ROut("EvalError", VNull, r.err, r.id),
                   env |-> r.env, log |-> r.log, alive |-> TRUE]

-----------------------------------------------------------------------------
(* The inputs.                                                             *)

Names == {"x", "y"}

Form(ops) == JArray(ops)
Ref(name) == Form(<<JString("$ref"), JString(name)>>)
BindForm(name, e) == Form(<<JString("$bind"), JString(name), e>>)

Lits ==
    {JNull, JBool(TRUE), JBool(FALSE), JString(""), JString("a")}
        \cup {JNumber(i) : i \in 0 .. MaxNum}

Refs == {Ref(name) : name \in Names}

\* operands: a reference (an error while the name is unbound) or a binding
LeftOperands == {Ref("x"), BindForm("x", JNumber(1)), JString("b")}
RightOperands == Refs \cup {BindForm("y", JNumber(1))}
Operands == Refs \cup {BindForm(name, JNumber(1)) : name \in Names}

BinaryTags == {"$add", "$sub", "$and", "$or", "$eq", "$notEq"}

\* comparisons, whose values stay within the literals' variants
Comparisons ==
    {Form(<<JString("$eq"), l, r>>) : l \in LeftOperands, r \in RightOperands}

Binds == {BindForm(name, e) : name \in Names, e \in Lits \cup Operands \cup Comparisons}

Binaries ==
    {Form(<<JString(t), l, r>>) : t \in BinaryTags, l \in LeftOperands, r \in RightOperands}

Ifs ==
    {Form(<<JString("$if"), c, t>>) : c \in Refs, t \in LeftOperands}
        \cup {Form(<<JString("$if"), c, t, f>>) :
                c \in Refs, t \in LeftOperands, f \in RightOperands}

Nots == {Form(<<JString("$not"), x>>) : x \in Operands}

\* texts that do not parse: rejected, or a panic inside the parser
BadForms ==
    {JBigNumber, JObject, Form(<< >>), Form(<<JString("foo"), JNumber(1)>>),
     Form(<<JString("$add"), JNumber(1)>>), Form(<<JString("$ref")>>),
     Form(<<JString("$bind"), JNumber(1), JNumber(1)>>),
     BindForm("x", Form(<<JString("$not")>>)),
     Form(<<JString("$eq"), BindForm("x", JNumber(1)), JObject>>)}

RunTexts ==
    {Malformed} \cup
    {Text(j) : j \in Lits \cup Refs \cup Binds \cup Binaries \cup Ifs \cup Nots \cup BadForms}

-----------------------------------------------------------------------------
(* The history of successful Binds, read off the events: a Bind's Ok exit  *)
(* directly follows the exit of its right-hand side, whose value it bound. *)

RECURSIVE NodeAt(_, _)
NodeAt(ast, p) == IF p = << >> THEN ast ELSE NodeAt(ast.kids[Head(p)], Tail(p))

RECURSIVE LastBinds(_, _, _, _)
LastBinds(b, ast, lg, i) ==
    IF i > Len(lg) THEN b
    ELSE IF lg[i].ev = "exit" /\ lg[i].ok /\ NodeAt(ast, lg[i].p).node = "Bind"
         THEN LET name == NodeAt(ast, lg[i].p).id
              IN  LastBinds([x \in DOMAIN b \cup {name} |->
                                IF x = name THEN lg[i - 1].v ELSE b[x]],
                            ast, lg, i + 1)
         ELSE LastBinds(b, ast, lg, i + 1)

-----------------------------------------------------------------------------
(* The session's operations.                                               *)

Init ==
    /\ env = EmptyEnv
    /\ alive = TRUE
    /\ src = Malformed
    /\ parsed = NoParse
    /\ out = NoOut
    /\ log = << >>
    /\ env0 = EmptyEnv
    /\ bound = EmptyEnv

\* Repl::new
NewSession ==
    /\ env' = EmptyEnv
    /\ alive' = TRUE
    /\ src' = Malformed
    /\ parsed' = NoParse
    /\ out' = NoOut
    /\ log' = << >>
    /\ env0' = EmptyEnv
    /\ bound' = EmptyEnv

\* Repl::eval_str
Run ==
    /\ alive
    /\ \E text \in RunTexts :
         \E r \in {eval_str(text, env)} :
             /\ src' = text
             /\ parsed' = r.parsed
             /\ out' = r.out
             /\ env' = r.env
             /\ log' = r.log
             /\ alive' = r.alive
             /\ env0' = env
             /\ bound' = LastBinds(bound, r.parsed.ast, r.log, 1)

Next == NewSession \/ Run

Spec == Init /\ [][Next]_vars

-----------------------------------------------------------------------------
(* The parser alone: JirParser::parse_json on arrays of every head and of  *)
(* every length up to MaxOperands operands.                                *)

Tags ==
    {"$add", "$sub", "$bind", "$ref", "$if", "$while", "$and", "$or", "$not", "$eq",
     "$notEq"}

Heads == {JString(t) : t \in Tags} \cup {JString("foo"), JNumber(1)}

\* a literal, a name, an operand that is rejected and two that panic
ParseOperands ==
    {JNumber(1), JString("x"), Form(<<JString("$not")>>), JObject, Form(<< >>)}

RECURSIVE OperandSeqs(_)
OperandSeqs(len) ==
    IF len = 0 THEN {<< >>}
    ELSE {Append(ops, o) : ops \in OperandSeqs(len - 1), o \in ParseOperands}

ParseForms ==
    {Form(<<h>> \o ops) : h \in Heads, ops \in UNION {OperandSeqs(len) : len \in 0 .. MaxOperands}}

ParseTexts ==
    {Malformed} \cup {Text(j) : j \in Lits \cup {JBigNumber, JObject, Form(<< >>)} \cup ParseForms}

\* the text is drawn, and not yet parsed
InitParse ==
    /\ src \in ParseTexts
    /\ parsed = NoParse
    /\ env = EmptyEnv
    /\ alive = TRUE
    /\ out = NoOut
    /\ log = << >>
    /\ env0 = EmptyEnv
    /\ bound = EmptyEnv

\* JirParser::parse_json
ParseOnly ==
    /\ parsed = NoParse
    /\ parsed' = parse_json(src)
    /\ UNCHANGED <<src, env, alive, out, log, env0, bound>>

SpecParse == InitParse /\ [][ParseOnly]_vars

-----------------------------------------------------------------------------
(* Properties of the parser, checked under SpecParse.                      *)

\* the operator table: the ten tags and the operand counts each requires
TenTags == Tags \ {"$while"}
MinArity(t) == IF t \in {"$ref", "$not"} THEN 1 ELSE 2
MaxArity(t) == IF t \in {"$ref", "$not"} THEN 1 ELSE IF t = "$if" THEN 3 ELSE 2

Parsed == parsed # NoParse
IsForm == src.valid /\ src.json.k = "Array" /\ Len(src.json.a) > 0
FormHead == src.json.a[1]
OperandCount == Len(src.json.a) - 1
HeadIn(tags) == FormHead.k = "String" /\ FormHead.s \in tags

\* only the input itself was handed to the parser: no operand was parsed
NoOperandParsed == parsed.log = << << >> >>

\* C1: an array headed by one of the ten tags whose operand count is below
\* the tag's arity yields NotEnoughArgs, above it TooManyArgs, and in both
\* cases no operand has been parsed.
ArityCheckedFirst ==
    (Parsed /\ IsForm /\ HeadIn(TenTags)) =>
        /\ (OperandCount < MinArity(FormHead.s)) =>
              (parsed.st = "Err" /\ parsed.err = "NotEnoughArgs" /\ NoOperandParsed)
        /\ (OperandCount > MaxArity(FormHead.s)) =>
              (parsed.st = "Err" /\ parsed.err = "TooManyArgs" /\ NoOperandParsed)

\* C2: parse_json returns an AstNode or a ParseError for every decoded JSON
\* value; it never panics.
ParseJsonTotal == Parsed => parsed.st \in {"Ok", "Err"}

\* C3 as stated: an array whose first element is not one of the ten tags
\* yields UnsupportedForm, and only the ten tags produce an AST node.
OnlyTenTagsParse ==
    (Parsed /\ IsForm) =>
        /\ ~HeadIn(TenTags) => (parsed.st = "Err" /\ parsed.err = "UnsupportedForm")
        /\ parsed.st = "Ok" => HeadIn(TenTags)

\* C3 as amended: an array whose first element is none of the eleven tags
\* the parser matches (the ten and "$while") yields UnsupportedForm with no
\* operand parsed; only those eleven produce an AST node, and "$while"
\* produces a While node.
OnlyMatchedTagsParse ==
    (Parsed /\ IsForm) =>
        /\ ~HeadIn(Tags) =>
              (parsed.st = "Err" /\ parsed.err = "UnsupportedForm" /\ NoOperandParsed)
        /\ parsed.st = "Ok" => HeadIn(Tags)
        /\ (parsed.st = "Ok" /\ HeadIn({"$while"})) =>
              (parsed.ast.node = "While" /\ OperandCount = 2)

UnsupportedFormSeen ==
    /\ Parsed /\ IsForm /\ FormHead = JString("foo") /\ OperandCount = 2
    /\ parsed.err = "UnsupportedForm"

-----------------------------------------------------------------------------
(* Properties of a session, checked under Spec.  They read the events of   *)
(* the last eval_str call: which nodes eval was called on, in what order,  *)
(* with which bindings, and what each call returned.                       *)

Ran == out # NoOut

Events(kind, p) == {i \in DOMAIN log : log[i].ev = kind /\ log[i].p = p}
WasEntered(p) == Events("enter", p) # {}
Returned(p) == Events("exit", p) # {}
EnterIdx(p) == CHOOSE i \in Events("enter", p) : TRUE
ExitIdx(p) == CHOOSE i \in Events("exit", p) : TRUE
EnterOf(p) == log[EnterIdx(p)]
ExitOf(p) == log[ExitIdx(p)]

\* the nodes of the given kinds that eval was called on
NodesOf(kinds) ==
    {q \in {log[i].p : i \in DOMAIN log} : NodeAt(parsed.ast, q).node \in kinds}

Entry(e, name) == IF name \in DOMAIN e THEN <<e[name]>> ELSE << >>
SameOutcome(a, b) == a.ok = b.ok /\ a.v = b.v /\ a.err = b.err /\ a.id = b.id
IsPrefix(p, q) == Len(p) < Len(q) /\ SubSeq(q, 1, Len(p)) = p

\* C4: running ["$ref", x] yields the value of the most recent Bind of x that
\* returned Ok in this session, and UndefinedIdent(x) if there was none; a
\* new session has no bindings.
RefYieldsLastBind ==
    /\ ~Ran => env = EmptyEnv
    /\ \A x \in Names :
         (Ran /\ src = Text(Ref(x))) =>
            out = IF x \in DOMAIN bound THEN ROut("Value", bound[x], "", "")
                  ELSE ROut("EvalError", VNull, "UndefinedIdent", x)

RefAfterBind ==
    /\ Ran /\ src = Text(Ref("x"))
    /\ out = ROut("Value", VString("a"), "", "")
    /\ Entry(bound, "y") = <<VNumber(0)>>

\* C5 as stated: when the right-hand side of a Bind returns an error, the
\* entry of its name is what it was when the Bind started and the Bind returns
\* that error; when it returns a value, the Bind inserts it and returns Null.
BindFailureKeepsEntry ==
    \A p \in NodesOf({"Bind"}) :
        (Returned(p) /\ Returned(p \o <<1>>)) =>
            LET name == NodeAt(parsed.ast, p).id
                rhs == ExitOf(p \o <<1>>)
                x == ExitOf(p)
            IN  /\ ~rhs.ok =>
                      /\ SameOutcome(x, rhs)
                      /\ Entry(x.env, name) = Entry(EnterOf(p).env, name)
                /\ rhs.ok =>
                      /\ x.ok /\ x.v = VNull
                      /\ Entry(x.env, name) = <<rhs.v>>

\* a Bind of name nested in the right-hand side of the Bind at p returned Ok
NestedBindOk(p, name) ==
    \E q \in NodesOf({"Bind"}) :
        IsPrefix(p, q) /\ NodeAt(parsed.ast, q).id = name /\ Returned(q) /\ ExitOf(q).ok

\* C5 as amended: when the right-hand side returns an error, the Bind returns
\* that error and inserts nothing, so the bindings are as the right-hand side
\* left them: the entry of its name is what it was when the Bind started
\* unless a Bind of the same name nested in the right-hand side returned Ok.
\* When it returns a value, the Bind inserts it, changes no other entry and
\* returns Null.
BindInsertsOnlyOnSuccess ==
    \A p \in NodesOf({"Bind"}) :
        /\ Returned(p) /\ Returned(p \o <<1>>)
        /\ LET name == NodeAt(parsed.ast, p).id
               rhs == ExitOf(p \o <<1>>)
               x == ExitOf(p)
           IN  /\ ~rhs.ok =>
                     /\ SameOutcome(x, rhs)
                     /\ x.env = rhs.env
                     /\ ~NestedBindOk(p, name) =>
                           Entry(x.env, name) = Entry(EnterOf(p).env, name)
               /\ rhs.ok =>
                     /\ x.ok /\ x.v = VNull
                     /\ Entry(x.env, name) = <<rhs.v>>
                     /\ \A other \in Names \ {name} :
                           Entry(x.env, other) = Entry(rhs.env, other)

FailedBindOfBoundName ==
    \E p \in NodesOf({"Bind"}) :
        /\ Returned(p \o <<1>>) /\ ~ExitOf(p \o <<1>>).ok
        /\ Entry(EnterOf(p).env, NodeAt(parsed.ast, p).id) = <<VString("a")>>
        /\ Entry(env, NodeAt(parsed.ast, p).id) = <<VString("a")>>

\* the truthy and the falsy values
Truthy(v) ==
    \/ v.tag = "Boolean" /\ v.b
    \/ v.tag = "Number" /\ v.n # 0
    \/ v.tag = "String" /\ v.s # ""
Falsy(v) == v \in {VBoolean(FALSE), VNumber(0), VString(""), VNull}

\* C6: an If whose condition is truthy evaluates the then-branch once, never
\* the else-branch, and returns the then-branch's result; one whose condition
\* is falsy never evaluates the then-branch, and returns the else-branch's
\* result, evaluated once, or Null when there is none; the bindings it leaves
\* are those of the branch taken (of the condition, when none is).
IfEvaluatesOneBranch ==
    \A p \in NodesOf({"If"}) :
        /\ Returned(p) /\ Returned(p \o <<1>>)
        /\ LET c == ExitOf(p \o <<1>>)
               x == ExitOf(p)
               hasElse == Len(NodeAt(parsed.ast, p).kids) = 3
           IN  c.ok =>
                 /\ Truthy(c.v) # Falsy(c.v)
                 /\ Truthy(c.v) =>
                       /\ Cardinality(Events("enter", p \o <<2>>)) = 1
                       /\ ~WasEntered(p \o <<3>>)
                       /\ SameOutcome(x, ExitOf(p \o <<2>>))
                       /\ x.env = ExitOf(p \o <<2>>).env
                 /\ (Falsy(c.v) /\ hasElse) =>
                       /\ ~WasEntered(p \o <<2>>)
                       /\ Cardinality(Events("enter", p \o <<3>>)) = 1
                       /\ SameOutcome(x, ExitOf(p \o <<3>>))
                       /\ x.env = ExitOf(p \o <<3>>).env
                 /\ (Falsy(c.v) /\ ~hasElse) =>
                       /\ ~WasEntered(p \o <<2>>)
                       /\ x.ok /\ x.v = VNull
                       /\ x.env = c.env

\* a falsy string skipped a then-branch that binds x, and x stays unbound
UntakenBindSkipped ==
    /\ NodesOf({"If"}) = {<< >>}
    /\ Returned(<<1>>) /\ ExitOf(<<1>>).ok /\ ExitOf(<<1>>).v = VString("")
    /\ parsed.ast.kids[2].node = "Bind" /\ parsed.ast.kids[2].id = "x"
    /\ Len(parsed.ast.kids) = 3
    /\ "x" \notin DOMAIN env

ParseErrors ==
    {"InvalidJson", "IdentExpected", "TooManyArgs", "NotEnoughArgs", "InvalidFormLength",
     "UnsupportedNumberLiteral", "UnsupportedForm"}

\* C7: when the text given to eval_str does not parse, eval is not called,
\* the result is that parse error (InvalidJson for malformed JSON) and the
\* bindings are what they were before the call.
ParseFailureSkipsEval ==
    (Ran /\ parsed.st = "Err") =>
        /\ out.kind = "ParseError" /\ out.err = parsed.err /\ out.err \in ParseErrors
        /\ ~src.valid => out.err = "InvalidJson"
        /\ log = << >>
        /\ env = env0

ParseFailureWithBindings ==
    /\ Ran /\ parsed.st = "Err" /\ src.valid
    /\ DOMAIN env0 = Names

\* C8: an Add whose operands both return values returns their sum when both
\* are Numbers, the left String followed by the right when both are Strings,
\* and UnexpectedTypeForOperation for every other pair of variants.
AddByVariant ==
    \A p \in NodesOf({"Add"}) :
        (Returned(p \o <<1>>) /\ Returned(p \o <<2>>)
            /\ ExitOf(p \o <<1>>).ok /\ ExitOf(p \o <<2>>).ok) =>
            LET l == ExitOf(p \o <<1>>).v
                r == ExitOf(p \o <<2>>).v
                x == ExitOf(p)
            IN  CASE l.tag = "Number" /\ r.tag = "Number" ->
                        x.ok /\ x.v = VNumber(l.n + r.n)
                  [] l.tag = "String" /\ r.tag = "String" ->
                        x.ok /\ x.v = VString(l.s \o r.s)
                  [] OTHER ->
                        ~x.ok /\ x.err = "UnexpectedTypeForOperation"

StringsConcatenated ==
    /\ NodesOf({"Add"}) = {<< >>}
    /\ Returned(<<1>>) /\ ExitOf(<<1>>).v = VString("b")
    /\ Returned(<<2>>) /\ ExitOf(<<2>>).v = VString("a")
    /\ out = ROut("Value", VString("ba"), "", "")

\* C9: Eq returns Boolean(true) exactly when its operands' values have the
\* same variant and equal payloads, and NotEq returns the negation of that.
EqIsStructural ==
    \A p \in NodesOf({"Eq", "NotEq"}) :
        (Returned(p \o <<1>>) /\ Returned(p \o <<2>>)
            /\ ExitOf(p \o <<1>>).ok /\ ExitOf(p \o <<2>>).ok) =>
            LET l == ExitOf(p \o <<1>>).v
                r == ExitOf(p \o <<2>>).v
                same == l.tag = r.tag /\ l.n = r.n /\ l.s = r.s /\ l.b = r.b
                x == ExitOf(p)
            IN  /\ x.ok
                /\ x.v = VBoolean(IF NodeAt(parsed.ast, p).node = "Eq" THEN same ELSE ~same)

SameVariantComparedUnequal ==
    /\ NodesOf({"NotEq"}) = {<< >>}
    /\ Returned(<<1>>) /\ ExitOf(<<1>>).v = VNumber(0)
    /\ Returned(<<2>>) /\ ExitOf(<<2>>).v = VNumber(1)
    /\ out = ROut("Value", VBoolean(TRUE), "", "")

BinaryKinds == {"Add", "Sub", "And", "Or", "Eq", "NotEq"}

\* C10: in every two-operand node the left operand has returned before eval
\* is called on the right one, and when the left operand returns an error the
\* right one is never evaluated: the node returns that error and leaves the
\* bindings as the left operand left them.
LeftBeforeRight ==
    \A p \in NodesOf(BinaryKinds) :
        /\ Returned(p) /\ Returned(p \o <<1>>)
        /\ WasEntered(p \o <<2>>) => ExitIdx(p \o <<1>>) < EnterIdx(p \o <<2>>)
        /\ ~ExitOf(p \o <<1>>).ok =>
              /\ ~WasEntered(p \o <<2>>)
              /\ SameOutcome(ExitOf(p), ExitOf(p \o <<1>>))
              /\ ExitOf(p).env = ExitOf(p \o <<1>>).env

\* the left operand failed and the right one, a Bind of y, did not run
RightBindSkipped ==
    /\ NodesOf(BinaryKinds) = {<< >>}
    /\ Returned(<<1>>) /\ ~ExitOf(<<1>>).ok
    /\ parsed.ast.kids[2].node = "Bind" /\ parsed.ast.kids[2].id = "y"
    /\ out.kind = "EvalError"
    /\ "y" \notin DOMAIN env

\* C11: an And or Or whose left operand returns a value evaluates its right
\* operand exactly once, whatever the left value is: the bindings it leaves
\* are those the right operand left, an error of the right operand is the
\* node's result, and otherwise the result is the conjunction (disjunction)
\* of the two truth values.
AndOrEvaluateBoth ==
    \A p \in NodesOf({"And", "Or"}) :
        (Returned(p) /\ Returned(p \o <<1>>) /\ ExitOf(p \o <<1>>).ok) =>
            /\ Cardinality(Events("enter", p \o <<2>>)) = 1
            /\ Cardinality(Events("exit", p \o <<2>>)) = 1
            /\ LET l == ExitOf(p \o <<1>>)
                   r == ExitOf(p \o <<2>>)
                   x == ExitOf(p)
               IN  /\ x.env = r.env
                   /\ ~r.ok => SameOutcome(x, r)
                   /\ r.ok =>
                         /\ x.ok
                         /\ NodeAt(parsed.ast, p).node = "And" =>
                               x.v = VBoolean(Truthy(l.v) /\ Truthy(r.v))
                         /\ NodeAt(parsed.ast, p).node = "Or" =>
                               x.v = VBoolean(Truthy(l.v) \/ Truthy(r.v))

\* the left operand of an And was falsy, and the Bind of y on its right ran
RightBindAfterFalsyLeft ==
    /\ NodesOf({"And"}) = {<< >>}
    /\ Returned(<<1>>) /\ ExitOf(<<1>>).ok /\ Falsy(ExitOf(<<1>>).v)
    /\ parsed.ast.kids[2].node = "Bind" /\ parsed.ast.kids[2].id = "y"
    /\ "y" \notin DOMAIN env0
    /\ Entry(env, "y") = <<VNumber(1)>>
    /\ out = ROut("Value", VBoolean(FALSE), "", "")

\* the bindings that the Binds which returned Ok during the last call made
BoundInRun == LastBinds(EmptyEnv, parsed.ast, log, 1)

\* after a call that returned an evaluation error, the bindings are those
\* before the call overwritten by every Bind that returned Ok during it
FailedRunKeepsBinds ==
    (Ran /\ out.kind = "EvalError") =>
        /\ env = LastBinds(env0, parsed.ast, log, 1)
        /\ env = log[Len(log)].env

\* a Sub evaluates its right operand whatever its left value is: when the
\* left value is no Number the Sub fails only after the right operand ran
SubCoercesAfterBoth ==
    \A p \in NodesOf({"Sub"}) :
        (Returned(p) /\ Returned(p \o <<1>>) /\ ExitOf(p \o <<1>>).ok) =>
            /\ Cardinality(Events("enter", p \o <<2>>)) = 1
            /\ Returned(p \o <<2>>)
            /\ ExitOf(p).env = ExitOf(p \o <<2>>).env
            /\ (ExitOf(p \o <<2>>).ok /\ ExitOf(p \o <<1>>).v.tag # "Number") =>
                  (~ExitOf(p).ok /\ ExitOf(p).err = "UnsupportedConversion")

\* a ["$ref", x] run right after a failed call sees what that call bound to x
LaterRefSeesBinds ==
    \A x \in Names :
        (/\ Ran /\ out.kind = "EvalError" /\ x \in DOMAIN BoundInRun
         /\ src' = Text(Ref(x)) /\ out' # NoOut) =>
            out' = ROut("Value", BoundInRun[x], "", "")

\* C12: a call that returns an evaluation error is not rolled back: the
\* bindings made by the Binds that returned Ok before the error stay, and a
\* later ["$ref", x] in the session yields them; so it is for a Sub, which
\* evaluates its right operand before it coerces its left value.
FailedRunNotRolledBack ==
    /\ [](FailedRunKeepsBinds /\ SubCoercesAfterBoth)
    /\ [][LaterRefSeesBinds]_vars

\* ["$eq", ["$bind", "x", 1], ["$ref", "y"]] failed on y and left x bound
BindSurvivesFailedRun ==
    /\ Ran /\ out = ROut("EvalError", VNull, "UndefinedIdent", "y")
    /\ parsed.ast.node = "Eq" /\ parsed.ast.kids[1].node = "Bind"
    /\ "x" \notin DOMAIN env0
    /\ Entry(env, "x") = <<VNumber(1)>>

====
